---- MODULE Spec2Model ----
(***************************************************************************)
(* Model of gemini1.py: the Streamlit script that reads an uploaded        *)
(* insurance document, posts it to the Gemini endpoint and renders the     *)
(* structured summary.  A script run is one top-to-bottom execution of the *)
(* module body; a run that reaches requests.post blocks there until the    *)
(* environment answers.                                                    *)
(*                                                                         *)
(* Python strings are sequences of code points.  Python values decoded     *)
(* from JSON are tagged records: None, bool, int, str, list and dict.      *)
(***************************************************************************)
EXTENDS Integers, Sequences, FiniteSets, TLC

\* ------------------------------------------------------------------------
\* Bounds of the model
\* ------------------------------------------------------------------------
MaxPresses == 2
MaxBytes == 2
MaxPages == 2

\* ------------------------------------------------------------------------
\* String literals as code-point sequences
\* ------------------------------------------------------------------------
\* The printable ASCII characters 32..95 and 97..126 in code order.  The
\* grave accent (96) cannot be written inside a TLA+ string; it is always
\* written as the number 96.
Ascii32 == " !\"#$%&'()*+,-./0123456789:;<=>?@ABCDEFGHIJKLMNOPQRSTUVWXYZ[\\]^_"
Ascii97 == "abcdefghijklmnopqrstuvwxyz{|}~"

\* ord(c) for the characters of the two strings and the line feed.
Ord ==
  [c \in {SubSeq(Ascii32, i, i) : i \in 1..Len(Ascii32)}
           \cup {SubSeq(Ascii97, i, i) : i \in 1..Len(Ascii97)} \cup {"\n"} |->
     IF c = "\n" THEN 10
     ELSE IF \E i \in 1..Len(Ascii32) : SubSeq(Ascii32, i, i) = c
          THEN 31 + (CHOOSE i \in 1..Len(Ascii32) : SubSeq(Ascii32, i, i) = c)
          ELSE 96 + (CHOOSE i \in 1..Len(Ascii97) : SubSeq(Ascii97, i, i) = c)]

Str(s) == [i \in 1..Len(s) |-> Ord[SubSeq(s, i, i)]]

\* s[a:-b] of Python, for 0 <= a and 0 < b.
Slice(s, a, b) == SubSeq(s, a + 1, Len(s) - b)

\* s.startswith(prefix) and s.endswith(suffix).
startswith(s, prefix) ==
  Len(prefix) <= Len(s) /\ SubSeq(s, 1, Len(prefix)) = prefix
endswith(s, suffix) ==
  Len(suffix) <= Len(s) /\ SubSeq(s, Len(s) - Len(suffix) + 1, Len(s)) = suffix

\* The characters str.strip() removes.
PyWhitespace ==
  (9..13) \cup (28..32) \cup {133, 160, 5760, 8232, 8233, 8239, 8287, 12288}
    \cup (8192..8202)

RECURSIVE lstrip(_)
lstrip(s) ==
  IF s # <<>> /\ Head(s) \in PyWhitespace THEN lstrip(Tail(s)) ELSE s

RECURSIVE rstrip(_)
rstrip(s) ==
  IF s # <<>> /\ s[Len(s)] \in PyWhitespace
  THEN rstrip(SubSeq(s, 1, Len(s) - 1)) ELSE s

strip(s) == rstrip(lstrip(s))

\* ------------------------------------------------------------------------
\* Python values
\* ------------------------------------------------------------------------
None == [t |-> "null"]
PyBool(b) == [t |-> "bool", b |-> b]
PyInt(n) == [t |-> "num", n |-> n]
PyStr(s) == [t |-> "str", s |-> s]
PyList(a) == [t |-> "arr", a |-> a]
PyDict(o) == [t |-> "obj", o |-> o]
KV(k, v) == [k |-> k, v |-> v]

\* The keys of the envelope and of the summary.
Key_candidates == Str("candidates")
Key_content == Str("content")
Key_parts == Str("parts")
Key_text == Str("text")
Key_summary == Str("summary")
Key_coverages == Str("coverages")
Key_exclusions == Str("exclusions")
Key_policyDetails == Str("policyDetails")
Key_policyNumber == Str("policyNumber")
Key_policyHolder == Str("policyHolder")
Key_effectiveDate == Str("effectiveDate")
Key_expirationDate == Str("expirationDate")
Key_premium == Str("premium")
Key_otherDetails == Str("otherDetails")

\* bool(v): None, False, 0, "", [] and {} are falsy.
Truthy(v) ==
  CASE v.t = "null" -> FALSE
    [] v.t = "bool" -> v.b
    [] v.t = "num" -> v.n # 0
    [] v.t = "str" -> Len(v.s) > 0
    [] v.t = "arr" -> Len(v.a) > 0
    [] v.t = "obj" -> Len(v.o) > 0

\* key in d, for a dict d (a later duplicate of a key replaces an earlier one).
HasKey(d, k) == \E i \in 1..Len(d.o) : d.o[i].k = k

\* d[k] for a dict d that has k.
Item(d, k) ==
  LET last == CHOOSE i \in 1..Len(d.o) :
                /\ d.o[i].k = k
                /\ \A j \in (i + 1)..Len(d.o) : d.o[j].k # k
  IN d.o[last].v

\* d.get(k, default) for a dict d.
DictGet(d, k, default) == IF HasKey(d, k) THEN Item(d, k) ELSE default

\* ------------------------------------------------------------------------
\* json.loads, for the subset of JSON without escapes, signs, fractions and
\* exponents (no input of the model contains one)
\* ------------------------------------------------------------------------
JsonWs == {32, 9, 10, 13}
LitNull == Str("null")
LitTrue == Str("true")
LitFalse == Str("false")
Digits == 48..57
Fail == [ok |-> FALSE, v |-> None, i |-> 0]
Ok(v, i) == [ok |-> TRUE, v |-> v, i |-> i]

RECURSIVE SkipWs(_, _)
SkipWs(s, i) ==
  IF i <= Len(s) /\ s[i] \in JsonWs THEN SkipWs(s, i + 1) ELSE i

IsAt(s, i, lit) ==
  /\ i + Len(lit) - 1 <= Len(s)
  /\ SubSeq(s, i, i + Len(lit) - 1) = lit

\* The index of the closing quote of the string whose first character is at i,
\* or 0 when the string is not terminated or holds a control character or a
\* backslash.
RECURSIVE StringEnd(_, _)
StringEnd(s, i) ==
  IF i > Len(s) THEN 0
  ELSE IF s[i] = 34 THEN i
  ELSE IF s[i] < 32 \/ s[i] = 92 THEN 0
  ELSE StringEnd(s, i + 1)

ParseString(s, i) ==
  LET e == StringEnd(s, i + 1)
  IN IF e = 0 THEN Fail ELSE Ok(PyStr(SubSeq(s, i + 1, e - 1)), e + 1)

RECURSIVE NumberEnd(_, _)
NumberEnd(s, i) ==
  IF i <= Len(s) /\ s[i] \in Digits THEN NumberEnd(s, i + 1) ELSE i

RECURSIVE DecimalValue(_)
DecimalValue(ds) ==
  IF ds = <<>> THEN 0
  ELSE 10 * DecimalValue(SubSeq(ds, 1, Len(ds) - 1)) + (ds[Len(ds)] - 48)

\* A leading 0 is a complete number: what follows it is not part of it.
ParseNumber(s, i) ==
  LET e == IF s[i] = 48 THEN i + 1 ELSE NumberEnd(s, i)
  IN Ok(PyInt(DecimalValue(SubSeq(s, i, e - 1))), e)

RECURSIVE ParseValue(_, _)
RECURSIVE ParseItems(_, _, _)
RECURSIVE ParseMembers(_, _, _)

\* The items of an array from the first character of an item on.
ParseItems(s, i, acc) ==
  LET r == ParseValue(s, i)
      j == SkipWs(s, r.i)
  IN IF ~r.ok \/ j > Len(s) THEN Fail
     ELSE IF s[j] = 93 THEN Ok(PyList(Append(acc, r.v)), j + 1)
     ELSE IF s[j] = 44 THEN ParseItems(s, SkipWs(s, j + 1), Append(acc, r.v))
     ELSE Fail

\* The members of an object from the opening quote of a key on.
ParseMembers(s, i, acc) ==
  IF i > Len(s) \/ s[i] # 34 THEN Fail
  ELSE
    LET key == ParseString(s, i)
        c == IF key.ok THEN SkipWs(s, key.i) ELSE 0
        r == IF key.ok /\ c <= Len(s) /\ s[c] = 58
             THEN ParseValue(s, SkipWs(s, c + 1)) ELSE Fail
        j == SkipWs(s, r.i)
        acc2 == Append(acc, [k |-> key.v.s, v |-> r.v])
    IN IF ~r.ok \/ j > Len(s) THEN Fail
       ELSE IF s[j] = 125 THEN Ok(PyDict(acc2), j + 1)
       ELSE IF s[j] = 44 THEN ParseMembers(s, SkipWs(s, j + 1), acc2)
       ELSE Fail

ParseValue(s, i) ==
  IF i > Len(s) THEN Fail
  ELSE IF s[i] = 34 THEN ParseString(s, i)
  ELSE IF s[i] = 123 THEN
    LET j == SkipWs(s, i + 1)
    IN IF j <= Len(s) /\ s[j] = 125 THEN Ok(PyDict(<<>>), j + 1)
       ELSE ParseMembers(s, j, <<>>)
  ELSE IF s[i] = 91 THEN
    LET j == SkipWs(s, i + 1)
    IN IF j <= Len(s) /\ s[j] = 93 THEN Ok(PyList(<<>>), j + 1)
       ELSE ParseItems(s, j, <<>>)
  ELSE IF IsAt(s, i, LitNull) THEN Ok(None, i + 4)
  ELSE IF IsAt(s, i, LitTrue) THEN Ok(PyBool(TRUE), i + 4)
  ELSE IF IsAt(s, i, LitFalse) THEN Ok(PyBool(FALSE), i + 5)
  ELSE IF s[i] \in Digits THEN ParseNumber(s, i)
  ELSE Fail

\* json.loads(s): the value, or ok = FALSE where it raises JSONDecodeError
\* (no value, or data after the value).
json_loads(s) ==
  LET r == ParseValue(s, SkipWs(s, 1))
  IN IF r.ok /\ SkipWs(s, r.i) = Len(s) + 1 THEN r ELSE Fail

\* ------------------------------------------------------------------------
\* Values that stand for "nothing there"
\* ------------------------------------------------------------------------
\* A page element that the run did not render.
Unset == [t |-> "unset"]
\* st.session_state without the key 'summary_data'.
NoKey == [t |-> "absent"]
\* The "No specific ... found or identified." line of a report section.
NoneFound == [t |-> "none_found"]

\* ------------------------------------------------------------------------
\* The messages the script shows
\* ------------------------------------------------------------------------
ErrReadingPdf == "error: Error reading PDF file"
ErrUnsupportedType == "error: Unsupported file type"
ErrNoValidResponse == "error: Could not get a valid response"
ErrNetworkOrApi == "error: Network or API error"
ErrDecodingJson == "error: Error decoding JSON response from model"
ErrUnexpected == "error: An unexpected error occurred"
InfoUploadToBegin == "info: Upload a .txt or .pdf file to begin"
WarnPleaseUpload == "warning: Please upload a document to summarize"
InfoAnalyzing == "info: Analyzing document"
ErrFailedToGenerate == "error: Failed to generate summary"

\* ------------------------------------------------------------------------
\* Uploaded files
\* ------------------------------------------------------------------------
TextPlain == "text/plain"
ApplicationPdf == "application/pdf"
\* Any other declared type; this one is the type of a .docx file.
Docx == "application/vnd.openxmlformats-officedocument.wordprocessingml.document"
MimeTypes == {TextPlain, ApplicationPdf, Docx}

\* The bytes files are made of: "A", and the two bytes of U+00E9, each of
\* which is malformed UTF-8 without the other.
ByteAlphabet == {65, 195, 169}

RECURSIVE SeqsUpTo(_, _)
SeqsUpTo(S, n) ==
  IF n = 0 THEN {<<>>}
  ELSE LET shorter == SeqsUpTo(S, n - 1)
       IN shorter \cup {Append(q, e) : q \in shorter, e \in S}

\* What PyPDF2 makes of a page: its text, or an exception in extract_text.
PageOutcomes == {[ok |-> TRUE, text |-> Str("")],
                 [ok |-> TRUE, text |-> Str("A")],
                 [ok |-> FALSE, text |-> Str("")]}

\* What PyPDF2.PdfReader makes of the bytes: the pages, or an exception.
PdfDocuments ==
  {[opens |-> FALSE, pages |-> <<>>]} \cup
  {[opens |-> TRUE, pages |-> ps] : ps \in SeqsUpTo(PageOutcomes, MaxPages)}

NoPdf == [opens |-> FALSE, pages |-> <<>>]
NoFile == [type |-> "", data |-> <<>>, pdf |-> NoPdf]

\* The script never reads the bytes of a file of another type: an empty file
\* and a file that holds "A" stand for all of them.
Files ==
  {[type |-> TextPlain, data |-> d, pdf |-> NoPdf] :
     d \in SeqsUpTo(ByteAlphabet, MaxBytes)} \cup
  {[type |-> Docx, data |-> d, pdf |-> NoPdf] : d \in {<<>>, <<65>>}} \cup
  {[type |-> ApplicationPdf, data |-> <<>>, pdf |-> doc] : doc \in PdfDocuments}

\* ------------------------------------------------------------------------
\* bytes.decode("utf-8")
\* ------------------------------------------------------------------------
\* The length of the sequence a lead byte announces, 0 for a byte that cannot
\* start one.
Utf8Length(b) ==
  IF b < 128 THEN 1
  ELSE IF b \in 194..223 THEN 2
  ELSE IF b \in 224..239 THEN 3
  ELSE IF b \in 240..244 THEN 4
  ELSE 0

\* The range allowed for the byte after lead byte b.
SecondByteRange(b) ==
  IF b = 224 THEN 160..191
  ELSE IF b = 237 THEN 128..159
  ELSE IF b = 240 THEN 144..191
  ELSE IF b = 244 THEN 128..143
  ELSE 128..191

RECURSIVE Continuation(_, _)
Continuation(cp, bs) ==
  IF bs = <<>> THEN cp ELSE Continuation(cp * 64 + (Head(bs) % 64), Tail(bs))

RECURSIVE decode_utf8(_, _)
decode_utf8(bytes, acc) ==
  IF bytes = <<>> THEN [ok |-> TRUE, s |-> acc]
  ELSE
    LET b == Head(bytes)
        n == Utf8Length(b)
    IN IF n = 0 \/ Len(bytes) < n THEN [ok |-> FALSE, s |-> <<>>]
       ELSE IF n = 1 THEN decode_utf8(Tail(bytes), Append(acc, b))
       ELSE IF /\ bytes[2] \in SecondByteRange(b)
               /\ \A k \in 3..n : bytes[k] \in 128..191
            THEN decode_utf8(SubSeq(bytes, n + 1, Len(bytes)),
                             Append(acc, Continuation(
                               IF n = 2 THEN b % 32 ELSE IF n = 3 THEN b % 16 ELSE b % 8,
                               SubSeq(bytes, 2, n))))
            ELSE [ok |-> FALSE, s |-> <<>>]

\* ------------------------------------------------------------------------
\* extract_text_from_pdf
\* ------------------------------------------------------------------------
RECURSIVE ConcatPages(_, _)
ConcatPages(pages, text) ==
  IF pages = <<>> THEN [ok |-> TRUE, text |-> text]
  ELSE IF ~Head(pages).ok THEN [ok |-> FALSE, text |-> text]
  ELSE ConcatPages(Tail(pages), text \o Head(pages).text)

\* extract_text_from_pdf returning the text read before the failing page.
extract_text_from_pdf_partial(doc) ==
  LET r == ConcatPages(doc.pages, <<>>)
  IN IF doc.opens /\ r.ok
     THEN [content |-> PyStr(r.text), messages |-> <<>>]
     ELSE [content |-> PyStr(r.text), messages |-> <<ErrReadingPdf>>]

\* The returned value and the messages shown.
extract_text_from_pdf(doc) ==
  LET r == ConcatPages(doc.pages, <<>>)
  IN IF doc.opens /\ r.ok
     THEN [content |-> PyStr(r.text), messages |-> <<>>]
     ELSE [content |-> None, messages |-> <<ErrReadingPdf>>]

\* ------------------------------------------------------------------------
\* The type dispatch on the upload
\* ------------------------------------------------------------------------
\* The dispatch reading a file of any other type as text.
ReadUpload_other_as_text(file) ==
  IF file.type = ApplicationPdf THEN
    LET e == extract_text_from_pdf(file.pdf)
    IN [content |-> e.content, messages |-> e.messages, raised |-> "none"]
  ELSE
    LET d == decode_utf8(file.data, <<>>)
    IN IF d.ok
       THEN [content |-> PyStr(d.s), messages |-> <<>>, raised |-> "none"]
       ELSE [content |-> None, messages |-> <<>>, raised |-> "UnicodeDecodeError"]

\* file_content after the dispatch, the messages shown, and the exception
\* that leaves the module body, if any.
ReadUpload(file) ==
  IF file.type = TextPlain THEN
    LET d == decode_utf8(file.data, <<>>)
    IN IF d.ok
       THEN [content |-> PyStr(d.s), messages |-> <<>>, raised |-> "none"]
       ELSE [content |-> None, messages |-> <<>>, raised |-> "UnicodeDecodeError"]
  ELSE IF file.type = ApplicationPdf THEN
    LET e == extract_text_from_pdf(file.pdf)
    IN [content |-> e.content, messages |-> e.messages, raised |-> "none"]
  ELSE [content |-> None,
        messages |-> <<ErrUnsupportedType>>,
        raised |-> "none"]

\* ------------------------------------------------------------------------
\* Replies of the model endpoint
\* ------------------------------------------------------------------------
FenceOpen == <<96, 96, 96>> \o Str("json")
FenceClose == <<96, 96, 96>>

\* Candidate texts without a fence: objects with every field, some fields
\* or no field, fields of another type than the schema asks for, JSON
\* values that are not objects, and texts that are not JSON.
FullSummary ==
  Str("{\"summary\":\"ok\",\"coverages\":[\"a\"],\"exclusions\":[\"b\"],")
    \o Str("\"policyDetails\":{\"policyNumber\":\"1\",\"policyHolder\":\"h\",")
    \o Str("\"effectiveDate\":\"d\",\"expirationDate\":\"e\",\"premium\":\"p\",")
    \o Str("\"otherDetails\":[\"o\"]}}")

FencedPayloads ==
  {Str("{}"), Str("{\"summary\":\"ok\"}"), Str("{\"summary\":"), Str("")}

PlainPayloads ==
  FencedPayloads \cup
  {FullSummary,
   Str("{\"summary\":null}"),
   Str("{\"coverages\":5}"),
   Str("{\"coverages\":\"ab\"}"),
   Str("{\"policyDetails\":\"x\"}"),
   Str("{\"policyDetails\":{\"premium\":\"p\"}}"),
   Str("{\"policyDetails\":{\"otherDetails\":3}}"),
   Str("{\"summary\":\"ok\",}"),
   Str("[]"), Str("[1]"), Str("0"), Str("1"), Str("01"),
   Str("null"), Str("true"), Str("\"x\"")}

\* The ways a payload comes wrapped: in the fence, in the fence with line
\* breaks inside it, in a fence that is not closed, in a fence followed by
\* a line break, in a fence without the language tag, and in white space.
Wrapped(p) ==
  {FenceOpen \o p \o FenceClose,
   FenceOpen \o Str("\n") \o p \o Str("\n") \o FenceClose,
   FenceOpen \o p,
   FenceOpen \o p \o FenceClose \o Str("\n"),
   FenceClose \o p \o FenceClose,
   Str(" ") \o p \o Str("\n")}

CandidateTexts == PlainPayloads \cup UNION {Wrapped(p) : p \in FencedPayloads}

\* The envelope that holds v at candidates[0].content.parts[0].text.
Envelope(v) ==
  PyDict(<<KV(Key_candidates, PyList(<<
    PyDict(<<KV(Key_content, PyDict(<<KV(Key_parts, PyList(<<
      PyDict(<<KV(Key_text, v)>>)>>))>>))>>)>>))>>)

\* Envelopes in which the path stops early, or that are not objects.
BrokenEnvelopes ==
  {PyList(<<>>),
   PyDict(<<>>),
   PyDict(<<KV(Key_candidates, PyList(<<>>))>>),
   PyDict(<<KV(Key_candidates, PyDict(<<KV(Str("a"), PyInt(1))>>))>>),
   PyDict(<<KV(Key_candidates, PyList(<<PyDict(<<>>)>>))>>),
   PyDict(<<KV(Key_candidates, PyList(<<
     PyDict(<<KV(Key_content, PyDict(<<>>))>>)>>))>>),
   PyDict(<<KV(Key_candidates, PyList(<<
     PyDict(<<KV(Key_content, PyDict(<<KV(Key_parts, PyList(<<>>))>>))>>)>>))>>),
   PyDict(<<KV(Key_candidates, PyList(<<
     PyDict(<<KV(Key_content, PyDict(<<KV(Key_parts, PyList(<<
       PyDict(<<>>)>>))>>))>>)>>))>>),
   Envelope(PyInt(5))}

\* A body response.json() decodes to v.
JsonBody(v) == [json |-> TRUE, v |-> v, raises |-> "none"]

\* A body that is not JSON.  response.json() raises the JSONDecodeError of
\* requests (a RequestException) or, with a requests older than 2.27, the one
\* of the json module.
NotJsonBodies ==
  {[json |-> FALSE, v |-> None, raises |-> e] :
     e \in {"requests.JSONDecodeError", "json.JSONDecodeError"}}

Bodies ==
  NotJsonBodies \cup {JsonBody(v) : v \in BrokenEnvelopes}
    \cup {JsonBody(Envelope(PyStr(text))) : text \in CandidateTexts}

Statuses == {200, 302, 500}

NoBody == [json |-> FALSE, v |-> None, raises |-> "none"]
NoReply == [kind |-> "none", status |-> 0, body |-> NoBody]
TransportError == [kind |-> "transport_error", status |-> 0, body |-> NoBody]

Replies ==
  {TransportError} \cup
  {[kind |-> "response", status |-> st, body |-> b] :
     st \in Statuses, b \in Bodies}

\* ------------------------------------------------------------------------
\* Python operations that can raise
\* ------------------------------------------------------------------------
Raised(e) == [raised |-> e, v |-> None]
Value(v) == [raised |-> "none", v |-> v]

\* v.get(k, default): only a dict has the method.
py_get(v, k, default) ==
  IF v.t = "obj" THEN Value(DictGet(v, k, default))
  ELSE Raised("AttributeError")

\* v[0]
Index0(v) ==
  CASE v.t = "arr" -> IF Len(v.a) > 0 THEN Value(v.a[1]) ELSE Raised("IndexError")
    [] v.t = "str" -> IF Len(v.s) > 0 THEN Value(PyStr(<<v.s[1]>>))
                      ELSE Raised("IndexError")
    [] v.t = "obj" -> Raised("KeyError")
    [] OTHER -> Raised("TypeError")

\* v[k] for a string k
Subscript(v, k) ==
  IF v.t = "obj"
  THEN IF HasKey(v, k) THEN Value(Item(v, k)) ELSE Raised("KeyError")
  ELSE Raised("TypeError")

\* The values a for loop over v visits.
Iterate(v) ==
  CASE v.t = "arr" -> Value(v)
    [] v.t = "str" -> Value(PyList([i \in 1..Len(v.s) |-> PyStr(<<v.s[i]>>)]))
    [] v.t = "obj" -> Value(PyList([i \in 1..Len(v.o) |-> PyStr(v.o[i].k)]))
    [] OTHER -> Raised("TypeError")

\* ------------------------------------------------------------------------
\* summarize_document, from the reply to requests.post on
\* ------------------------------------------------------------------------
\* summarize_document without the call of raise_for_status.
raise_for_status_never(status) == FALSE

\* response.raise_for_status() raises HTTPError for the statuses 400..599.
raise_for_status(status) == status >= 400 /\ status < 600

\* The condition of the if statement: a and b and c stops at the first falsy
\* operand.
PathCondition(result) ==
  LET candidates == py_get(result, Key_candidates, None)
      first == Index0(candidates.v)
      content == py_get(first.v, Key_content, None)
      parts == py_get(content.v, Key_parts, None)
  IN IF candidates.raised # "none" THEN Raised(candidates.raised)
     ELSE IF ~Truthy(candidates.v) THEN Value(PyBool(FALSE))
     ELSE IF first.raised # "none" THEN Raised(first.raised)
     ELSE IF content.raised # "none" THEN Raised(content.raised)
     ELSE IF ~Truthy(content.v) THEN Value(PyBool(FALSE))
     ELSE IF parts.raised # "none" THEN Raised(parts.raised)
     ELSE Value(PyBool(Truthy(parts.v)))

\* result["candidates"][0]["content"]["parts"][0]["text"], where the
\* condition holds.
CandidateText(result) ==
  LET parts == Item(Item(Index0(Item(result, Key_candidates)).v,
                         Key_content), Key_parts)
      part == Index0(parts)
  IN IF part.raised # "none" THEN Raised(part.raised)
     ELSE Subscript(part.v, Key_text)

\* The fence cut one character early: json_string[6:-3].
StripFence_cut_early(json_string) ==
  IF startswith(json_string, FenceOpen) /\ endswith(json_string, FenceClose)
  THEN strip(Slice(json_string, 6, 3))
  ELSE json_string

\* The string passed to json.loads for the string json_string.
StripFence(json_string) ==
  IF startswith(json_string, FenceOpen) /\ endswith(json_string, FenceClose)
  THEN strip(Slice(json_string, 7, 3))
  ELSE json_string

\* The body of the try statement: it returns a value, or takes the else
\* branch, or raises.
TryOutcome(raised, branch, ret, decoder_input) ==
  [raised |-> raised, branch |-> branch, ret |-> ret,
   decoder_input |-> decoder_input]

\* return json.loads(json_string), with decoded the outcome of json.loads.
ReturnDecoded(json_string, decoded) ==
  IF decoded.ok
  THEN TryOutcome("none", "return", decoded.v, PyStr(json_string))
  ELSE TryOutcome("json.JSONDecodeError", "raise", None, PyStr(json_string))

\* The then branch, with text the outcome of reading the candidate text.
ThenBranch(text) ==
  IF text.raised # "none"
  THEN TryOutcome(text.raised, "raise", None, Unset)
  ELSE IF text.v.t # "str"
  THEN TryOutcome("AttributeError", "raise", None, Unset)
  ELSE ReturnDecoded(StripFence(text.v.s), json_loads(StripFence(text.v.s)))

\* The if statement, with cond the outcome of evaluating its condition.
IfStatement(result, cond) ==
  IF cond.raised # "none"
  THEN TryOutcome(cond.raised, "raise", None, Unset)
  ELSE IF ~cond.v.b
  THEN TryOutcome("none", "else", None, Unset)
  ELSE ThenBranch(CandidateText(result))

TryBody(reply) ==
  IF reply.kind = "transport_error"
  THEN TryOutcome("requests.ConnectionError", "raise", None, Unset)
  ELSE IF raise_for_status(reply.status)
  THEN TryOutcome("requests.HTTPError", "raise", None, Unset)
  ELSE IF ~reply.body.json
  THEN TryOutcome(reply.body.raises, "raise", None, Unset)
  ELSE IfStatement(reply.body.v, PathCondition(reply.body.v))

IsRequestException(e) ==
  e \in {"requests.ConnectionError", "requests.HTTPError",
         "requests.JSONDecodeError"}

IsJSONDecodeError(e) ==
  e \in {"json.JSONDecodeError", "requests.JSONDecodeError"}

\* The first clause catching the decode error as well.
except_clause_decode_as_network(e) ==
  IF IsRequestException(e) \/ IsJSONDecodeError(e)
  THEN [message |-> ErrNetworkOrApi, text |-> FALSE]
  ELSE [message |-> ErrUnexpected, text |-> FALSE]

\* The first except clause that matches the exception: the message it shows
\* and whether it shows response.text.
except_clause(e) ==
  IF IsRequestException(e)
  THEN [message |-> ErrNetworkOrApi, text |-> FALSE]
  ELSE IF IsJSONDecodeError(e)
  THEN [message |-> ErrDecodingJson,
        text |-> TRUE]
  ELSE [message |-> ErrUnexpected, text |-> FALSE]

\* An except clause at work: the message, and response.text after a decode
\* error.
Except(reply, body, handler) ==
  [ret |-> None,
   messages |-> <<handler.message>>,
   debug |-> IF handler.text THEN [t |-> "st.text", v |-> reply.body]
             ELSE Unset,
   decoder_input |-> body.decoder_input]

\* The try statement, with body the outcome of its body.
TryStatement(reply, body) ==
  IF body.branch = "return"
  THEN [ret |-> body.ret, messages |-> <<>>, debug |-> Unset,
        decoder_input |-> body.decoder_input]
  ELSE IF body.branch = "else"
  THEN [ret |-> None,
        messages |-> <<ErrNoValidResponse>>,
        debug |-> [t |-> "st.json", v |-> reply.body.v],
        decoder_input |-> Unset]
  ELSE Except(reply, body, except_clause(body.raised))

\* The value returned, the messages shown, what st.json or st.text shows
\* for debugging, and the string passed to json.loads.
summarize_document(reply) == TryStatement(reply, TryBody(reply))

\* ------------------------------------------------------------------------
\* The summary report
\* ------------------------------------------------------------------------
NA == PyStr(Str("N/A"))

\* A bulleted section: the items of the list under key, or the line that
\* says none were found.
Section(d, key) ==
  LET v == DictGet(d, key, None)
  IN IF Truthy(v) THEN Iterate(v) ELSE Value(NoneFound)

PolicyTable(pd) ==
  [t |-> "table",
   policyNumber |-> DictGet(pd, Key_policyNumber, NA),
   policyHolder |-> DictGet(pd, Key_policyHolder, NA),
   effectiveDate |-> DictGet(pd, Key_effectiveDate, NA),
   expirationDate |-> DictGet(pd, Key_expirationDate, NA),
   premium |-> DictGet(pd, Key_premium, NA)]

Report(summary, coverages, exclusions, policy, other, raised) ==
  [summary |-> summary, coverages |-> coverages, exclusions |-> exclusions,
   policy |-> policy, other |-> other, raised |-> raised]

NoReport == Report(Unset, Unset, Unset, Unset, Unset, "none")

\* The report rendered for a truthy summary_data, up to the statement that
\* raises, if one does.
render_summary(summary_data) ==
  IF summary_data.t # "obj"
  THEN Report(Unset, Unset, Unset, Unset, Unset, "AttributeError")
  ELSE
    LET summary == DictGet(summary_data, Key_summary, NA)
        coverages == Section(summary_data, Key_coverages)
        exclusions == Section(summary_data, Key_exclusions)
        policy_details == DictGet(summary_data, Key_policyDetails, PyDict(<<>>))
        other == IF policy_details.t = "obj"
                 THEN LET o == DictGet(policy_details, Key_otherDetails, None)
                      IN IF Truthy(o) THEN Iterate(o) ELSE Value(Unset)
                 ELSE Value(Unset)
    IN IF coverages.raised # "none"
       THEN Report(summary, Unset, Unset, Unset, Unset, coverages.raised)
       ELSE IF exclusions.raised # "none"
       THEN Report(summary, coverages.v, Unset, Unset, Unset, exclusions.raised)
       ELSE IF ~Truthy(policy_details)
       THEN Report(summary, coverages.v, exclusions.v, NoneFound, Unset, "none")
       ELSE IF policy_details.t # "obj"
       THEN Report(summary, coverages.v, exclusions.v, Unset, Unset,
                   "AttributeError")
       ELSE IF other.raised # "none"
       THEN Report(summary, coverages.v, exclusions.v,
                   PolicyTable(policy_details), Unset, other.raised)
       ELSE Report(summary, coverages.v, exclusions.v,
                   PolicyTable(policy_details), other.v, "none")

\* ------------------------------------------------------------------------
\* State
\* ------------------------------------------------------------------------
VARIABLES
  uploaded_file,    \* the file in the uploader, NoFile when there is none
  session_state,    \* st.session_state['summary_data'], NoKey without the key
  pc,               \* "idle", or "awaiting_reply" inside requests.post
  presses,          \* presses of 'Summarize Document' so far
  posts,            \* calls of requests.post so far
  reply,            \* the reply to this run's POST, NoReply when there is none
  messages,         \* st.info, st.warning and st.error lines of this run
  preview,          \* the text in the preview of this run, or Unset
  button_offered,   \* whether this run showed 'Summarize Document'
  returned,         \* what summarize_document returned in this run, or Unset
  decoder_input,    \* the string this run passed to json.loads, or Unset
  debug,            \* what this run showed with st.json or st.text, or Unset
  report,           \* the summary report of this run
  raised,           \* the exception that ended this run, "none" without one
  cleared,          \* what this run deleted from the session state, or Unset
  last_returned     \* what the latest finished call of summarize_document
                    \* returned, Unset before the first

vars == <<uploaded_file, session_state, pc, presses, posts, reply, messages,
          preview, button_offered, returned, decoder_input, debug, report,
          raised, cleared, last_returned>>

\* A button that stays pressed in the runs that follow.
st_button_sticky(clicked) == TRUE

\* st.button(...): True in the run that a press of the button started.
st_button(clicked) == clicked

\* The handler without the del statement.
ClearSummary_keep(state) == state

\* del st.session_state['summary_data'] when the key is there.
ClearSummary(state) == NoKey

\* A run of the script from its first line to its last, or to requests.post.
StartRun(file, clicked) ==
  LET upload == ReadUpload(file)
      no_output ==
        /\ reply' = NoReply
        /\ returned' = Unset
        /\ decoder_input' = Unset
        /\ debug' = Unset
        /\ report' = NoReport
  IN /\ uploaded_file' = file
     /\ no_output
     /\ UNCHANGED last_returned
     /\ IF file = NoFile THEN
          /\ messages' = <<InfoUploadToBegin>>
          /\ preview' = Unset
          /\ button_offered' = FALSE
          /\ raised' = "none"
          /\ pc' = "idle"
          /\ cleared' = Unset
          /\ UNCHANGED <<session_state, posts>>
        ELSE IF upload.raised # "none" THEN
          /\ messages' = upload.messages
          /\ preview' = Unset
          /\ button_offered' = FALSE
          /\ raised' = upload.raised
          /\ pc' = "idle"
          /\ cleared' = Unset
          /\ UNCHANGED <<session_state, posts>>
        ELSE IF ~Truthy(upload.content) THEN
          /\ messages' = Append(upload.messages,
                                WarnPleaseUpload)
          /\ preview' = Unset
          /\ button_offered' = FALSE
          /\ raised' = "none"
          /\ pc' = "idle"
          /\ cleared' = Unset
          /\ UNCHANGED <<session_state, posts>>
        ELSE
          /\ preview' = upload.content
          /\ button_offered' = TRUE
          /\ raised' = "none"
          /\ IF st_button(clicked) THEN
               /\ session_state' = ClearSummary(session_state)
               /\ cleared' = IF session_state = NoKey THEN Unset
                             ELSE session_state
               /\ messages' = Append(upload.messages, InfoAnalyzing)
               /\ posts' = posts + 1
               /\ pc' = "awaiting_reply"
             ELSE
               /\ messages' = upload.messages
               /\ pc' = "idle"
               /\ cleared' = Unset
               /\ UNCHANGED <<session_state, posts>>

Init ==
  /\ uploaded_file = NoFile
  /\ session_state = NoKey
  /\ pc = "idle"
  /\ presses = 0
  /\ posts = 0
  /\ reply = NoReply
  /\ messages = <<InfoUploadToBegin>>
  /\ preview = Unset
  /\ button_offered = FALSE
  /\ returned = Unset
  /\ decoder_input = Unset
  /\ debug = Unset
  /\ report = NoReport
  /\ raised = "none"
  /\ cleared = Unset
  /\ last_returned = Unset

\* The user puts a file in the uploader.
Upload(file) ==
  /\ pc = "idle"
  /\ StartRun(file, FALSE)
  /\ UNCHANGED presses

\* The user takes the file out of the uploader.
RemoveFile ==
  /\ pc = "idle"
  /\ uploaded_file # NoFile
  /\ StartRun(NoFile, FALSE)
  /\ UNCHANGED presses

\* The user presses 'Summarize Document'.
PressSummarize ==
  /\ pc = "idle"
  /\ button_offered
  /\ presses < MaxPresses
  /\ presses' = presses + 1
  /\ StartRun(uploaded_file, TRUE)

\* The script from the return of summarize_document to its last line.
Render(result, rendered) ==
  /\ session_state' = result.ret
  /\ returned' = result.ret
  /\ last_returned' = result.ret
  /\ decoder_input' = result.decoder_input
  /\ debug' = result.debug
  /\ report' = rendered
  /\ raised' = rendered.raised
  /\ messages' = IF Truthy(result.ret) THEN messages \o result.messages
                 ELSE (messages \o result.messages) \o <<ErrFailedToGenerate>>

AfterSummarize(result) ==
  Render(result, IF Truthy(result.ret) THEN render_summary(result.ret)
                 ELSE NoReport)

\* requests.post returns or raises, and the run goes on to its end.
Reply(r) ==
  /\ pc = "awaiting_reply"
  /\ reply' = r
  /\ AfterSummarize(summarize_document(r))
  /\ pc' = "idle"
  /\ UNCHANGED <<uploaded_file, presses, posts, preview, button_offered,
                 cleared>>

Next ==
  \/ \E file \in Files : Upload(file)
  \/ RemoveFile
  \/ PressSummarize
  \/ \E r \in Replies : Reply(r)

Spec == Init /\ [][Next]_vars

\* ------------------------------------------------------------------------
\* Vocabulary of the properties
\* ------------------------------------------------------------------------
Shown(m) == \E i \in 1..Len(messages) : messages[i] = m

\* This run called requests.post.
RunPosted == pc = "awaiting_reply" \/ reply.kind # "none"

\* This run ran to its end after a reply with a 2xx status and a JSON body.
SuccessReply ==
  /\ pc = "idle"
  /\ reply.kind = "response"
  /\ reply.status \in 200..299
  /\ reply.body.json

\* Every step of candidates[0].content.parts[0].text is there in env.
PathPresent(env) ==
  /\ env.t = "obj" /\ HasKey(env, Key_candidates)
  /\ LET candidates == Item(env, Key_candidates)
     IN /\ candidates.t = "arr" /\ Len(candidates.a) > 0
        /\ candidates.a[1].t = "obj" /\ HasKey(candidates.a[1], Key_content)
        /\ LET content == Item(candidates.a[1], Key_content)
           IN /\ content.t = "obj" /\ HasKey(content, Key_parts)
              /\ LET parts == Item(content, Key_parts)
                 IN /\ parts.t = "arr" /\ Len(parts.a) > 0
                    /\ parts.a[1].t = "obj" /\ HasKey(parts.a[1], Key_text)

\* The candidate text of this run's reply, where the path is there.
ReplyText ==
  Item(Item(Item(Item(reply.body.v, Key_candidates).a[1], Key_content),
            Key_parts).a[1], Key_text)

\* This run ran to its end after a reply whose candidate text is a string.
TextReply ==
  /\ SuccessReply
  /\ PathPresent(reply.body.v)
  /\ ReplyText.t = "str"

HasFence(text) ==
  /\ Len(text) >= 10
  /\ SubSeq(text, 1, 7) = <<96, 96, 96, 106, 115, 111, 110>>
  /\ SubSeq(text, Len(text) - 2, Len(text)) = <<96, 96, 96>>

\* The text between the first 7 and the last 3 characters.
Inside(text) == SubSeq(text, 8, Len(text) - 3)

\* d is s without the white space at its two ends.
IsTrimmed(d, s) ==
  /\ d = <<>> \/ (d[1] \notin PyWhitespace /\ d[Len(d)] \notin PyWhitespace)
  /\ \E i \in 1..(Len(s) + 1) :
       /\ i + Len(d) - 1 <= Len(s)
       /\ SubSeq(s, i, i + Len(d) - 1) = d
       /\ \A k \in 1..Len(s) :
            (k < i \/ k >= i + Len(d)) => s[k] \in PyWhitespace

\* The upload has no content: an empty text file, or a PDF that cannot be
\* opened, has a page whose extraction throws, or has no text on any page.
NoContent(file) ==
  \/ file.type = TextPlain /\ file.data = <<>>
  \/ /\ file.type = ApplicationPdf
     /\ \/ ~file.pdf.opens
        \/ \E i \in 1..Len(file.pdf.pages) : ~file.pdf.pages[i].ok
        \/ \A i \in 1..Len(file.pdf.pages) : file.pdf.pages[i].text = <<>>

\* ------------------------------------------------------------------------
\* Properties
\* ------------------------------------------------------------------------

\* C1: whatever the upload and whatever the reply, a run ends with a
\* rendered summary or a reported failure, never with an exception that
\* leaves the script.
C1_NoRunEndsInException == pc = "idle" => raised = "none"

C3_UnsupportedTypeNoRequest ==
  (uploaded_file.type \notin {"", TextPlain, ApplicationPdf}) =>
    /\ Shown(ErrUnsupportedType)
    /\ preview = Unset
    /\ ~button_offered
    /\ ~RunPosted
    /\ raised = "none"

C3_Witness ==
  /\ uploaded_file.type = Docx
  /\ Len(uploaded_file.data) > 0
  /\ Shown(ErrUnsupportedType)
  /\ session_state.t = "obj"

\* C4: no step issues a POST without a press of the button, and a press
\* issues at most one, so that the POSTs never outnumber the presses.
C4_NoAutomaticRetry ==
  [][/\ posts' - posts <= presses' - presses
     /\ presses' - presses <= 1]_vars

C4_Witness ==
  /\ pc = "idle"
  /\ presses >= 2
  /\ posts = presses
  /\ returned = None

\* C5: for every candidate text that decodes as JSON the run shows a summary
\* report with the defaults in the place of each missing field: "N/A" for
\* the summary and the policy number, no item for the coverages and the
\* exclusions.
C5_DecodedTextShowsDefaultedSummary ==
  (TextReply /\ decoder_input.t = "str" /\ json_loads(decoder_input.s).ok) =>
    LET d == json_loads(decoder_input.s).v
    IN /\ raised = "none"
       /\ ~Shown(ErrFailedToGenerate)
       /\ report.summary.t # "unset"
       /\ d.t = "obj"
       /\ ~HasKey(d, Key_summary) => report.summary = NA
       /\ ~HasKey(d, Key_coverages) => report.coverages = NoneFound
       /\ ~HasKey(d, Key_exclusions) => report.exclusions = NoneFound
       /\ ~HasKey(d, Key_policyDetails) =>
            \/ report.policy = NoneFound
            \/ report.policy.t = "table" /\ report.policy.policyNumber = NA

\* C6 as stated: the string passed to json.loads is the candidate text
\* without its first 7 and last 3 characters when the text has the fence,
\* and the candidate text otherwise.
C6_FenceCutExactly ==
  (TextReply /\ decoder_input.t = "str") =>
    decoder_input.s = IF HasFence(ReplyText.s) THEN Inside(ReplyText.s)
                      ELSE ReplyText.s

\* C6 as amended: the string passed to json.loads is, when the text has the
\* fence, the text without its first 7 and last 3 characters and without the
\* white space at the two ends of what is left; it is the candidate text
\* otherwise.
C6_FenceCutThenTrimmed ==
  (TextReply /\ decoder_input.t = "str") =>
    IF HasFence(ReplyText.s)
    THEN IsTrimmed(decoder_input.s, Inside(ReplyText.s))
    ELSE decoder_input.s = ReplyText.s

C6_Witness ==
  /\ TextReply
  /\ HasFence(ReplyText.s)
  /\ decoder_input.t = "str"
  /\ decoder_input.s # Inside(ReplyText.s)
  /\ Len(decoder_input.s) > 0

\* C7: after a 2xx reply whose envelope is an object that lacks a step of
\* candidates[0].content.parts[0].text the run reports the empty response,
\* shows the envelope, and reports no other failure of summarize_document.
C7_AbsentPathIsEmptyResponse ==
  (SuccessReply /\ reply.body.v.t = "obj" /\ ~PathPresent(reply.body.v)) =>
    /\ Shown(ErrNoValidResponse)
    /\ debug = [t |-> "st.json", v |-> reply.body.v]
    /\ ~Shown(ErrNetworkOrApi)
    /\ ~Shown(ErrDecodingJson)
    /\ ~Shown(ErrUnexpected)

\* C8: when the string passed to json.loads is not JSON, the run reports the
\* decode error and not the network error, shows the raw response text,
\* and returns, stores and renders no summary.
C8_UndecodableTextIsDecodeError ==
  (TextReply /\ decoder_input.t = "str" /\ ~json_loads(decoder_input.s).ok) =>
    /\ Shown(ErrDecodingJson)
    /\ ~Shown(ErrNetworkOrApi)
    /\ debug = [t |-> "st.text", v |-> reply.body]
    /\ returned = None
    /\ session_state = None
    /\ report = NoReport
    /\ raised = "none"

C8_Witness ==
  /\ TextReply
  /\ HasFence(ReplyText.s)
  /\ decoder_input.t = "str"
  /\ Len(decoder_input.s) > 0
  /\ ~json_loads(decoder_input.s).ok
  /\ debug.t = "st.text"

C10_NoContentNoRequest ==
  (uploaded_file # NoFile /\ NoContent(uploaded_file)) =>
    /\ preview = Unset
    /\ ~button_offered
    /\ ~RunPosted
    /\ Shown(WarnPleaseUpload)
    /\ raised = "none"

C10_Witness ==
  /\ uploaded_file.type = ApplicationPdf
  /\ uploaded_file.pdf.opens
  /\ Len(uploaded_file.pdf.pages) = 2
  /\ uploaded_file.pdf.pages[1].ok /\ uploaded_file.pdf.pages[1].text # <<>>
  /\ ~uploaded_file.pdf.pages[2].ok
  /\ Shown(ErrReadingPdf)
  /\ Shown(WarnPleaseUpload)

TypeOK ==
  /\ pc \in {"idle", "awaiting_reply"}
  /\ presses \in 0..MaxPresses
  /\ posts \in 0..MaxPresses
  /\ uploaded_file.type \in MimeTypes \cup {""}
  /\ reply.kind \in {"none", "transport_error", "response"}
====
